---- MODULE Spec2Model ----
(***************************************************************************)
(* solc-go: the baseSolc binding over an embedded v8 context.              *)
(*                                                                         *)
(* The model follows one call of New(soljsonjs) (isolate, context, init's  *)
(* script run and the three entry-point bindings) and then the goroutines  *)
(* that call License, Version, Compile and Close on the instance New       *)
(* returned.  The v8 engine and encoding/json are external: every call     *)
(* into them is a step whose outcome (value or error) is chosen            *)
(* nondeterministically.  sync.Mutex is a lock bit; `holder` is a ghost    *)
(* that remembers which goroutine's Lock() call succeeded last.            *)
(***************************************************************************)
EXTENDS Integers, Sequences, FiniteSets, TLC

\* ---------------------------------------------------------------- bounds
NumGoroutines == 2
MaxCalls == 3
MaxFragments == 2

Goroutines == 1..NumGoroutines

\* ------------------------------------------------------- the script text
\* A script is a sequence of tokens; the three needles init searches for.
NeedleSolidityVersion == <<"_", "solidity", "_", "version">>
NeedleSolidityLicense == <<"_", "solidity", "_", "license">>
NeedleLicense == <<"_", "license">>

\* Pieces scripts are assembled from.  <<"_","solidity">> followed by
\* <<"_","license">> spells "_solidity_license" across two pieces.
Fragments ==
    { NeedleSolidityVersion, NeedleSolidityLicense, NeedleLicense,
      <<"_", "solidity">> }

RECURSIVE ScriptsOf(_)
ScriptsOf(n) ==
    IF n = 0 THEN { <<>> }
    ELSE LET shorter == ScriptsOf(n - 1)
         IN  shorter \cup { s \o f : s \in shorter, f \in Fragments }

Scripts == ScriptsOf(MaxFragments)

\* strings.Contains(s, substr): substr occurs at some offset of s.
Contains(s, substr) ==
    \E i \in 0..(Len(s) - Len(substr)) :
        SubSeq(s, i + 1, i + Len(substr)) = substr

\* ----------------------------------------------------------------- state
VARIABLES
    soljsonjs,   \* the argument of New; <<>> once New has returned
    newpc,       \* position of the call of New
    isolate,     \* "none" | "open" | "closed"
    ctx,         \* "none" | "open" | "closed"
    version,     \* solc.version: "nil" or the export it wraps
    license,     \* solc.license
    compile,     \* solc.compile
    newRet,      \* what New returned: [solc |-> BOOLEAN, err |-> ...]
    mux,         \* solc.mux is locked
    holder,      \* ghost: goroutine whose Lock() succeeded last, 0 if none
    workload,    \* which callers drive the instance
    pc,          \* per goroutine: position inside its operation, or "idle"
    op,          \* per goroutine: the operation it called last, "none" at first
    calls,       \* calls started on the instance
    returns,     \* calls that have returned
    inside,      \* goroutines executing inside the v8 context
    val,         \* per goroutine: result of its last v8 call, until consumed
    ret          \* per goroutine: operands of its last return statement

newVars == <<soljsonjs, newpc, isolate, ctx, version, license, compile, newRet>>
callVars == <<mux, holder, pc, op, calls, returns, inside, val, ret>>
vars == <<newVars, callVars, workload>>

Ops == {"License", "Version", "Compile", "Close"}
Workloads == {"any", "compile", "test"}
TestProgram == <<"License", "Version", "Compile">>

NoRet == [kind |-> "none", out |-> "nil", err |-> "nil"]

Init ==
    /\ soljsonjs \in Scripts
    /\ newpc = "NewIsolate"
    /\ isolate = "none"
    /\ ctx = "none"
    /\ version = "nil"
    /\ license = "nil"
    /\ compile = "nil"
    /\ newRet = [solc |-> FALSE, err |-> "nil"]
    /\ mux = FALSE
    /\ holder = 0
    /\ workload \in Workloads
    /\ pc = [g \in Goroutines |-> "idle"]
    /\ op = [g \in Goroutines |-> "none"]
    /\ calls = 0
    /\ returns = 0
    /\ inside = {}
    /\ val = [g \in Goroutines |-> "nil"]
    /\ ret = [g \in Goroutines |-> NoRet]

\* ------------------------------------------------------------------- New
\* NewFail, handing the half-built instance back together with the error.
NewFailMutKeepsInstance(e) ==
    /\ newpc' = "returned"
    /\ newRet' = [solc |-> TRUE, err |-> e]
    /\ soljsonjs' = <<>>

\* return nil, err: init passes e up and new returns it without an instance.
NewFail(e) ==
    /\ newpc' = "returned"
    /\ newRet' = [solc |-> FALSE, err |-> e]
    /\ soljsonjs' = <<>>

\* isolate, err := v8go.NewIsolate()
NewIsolate ==
    /\ newpc = "NewIsolate"
    /\ \/ /\ isolate' = "open"
          /\ newpc' = "NewContext"
          /\ UNCHANGED <<newRet, soljsonjs>>
       \/ /\ NewFail("isolate")
          /\ UNCHANGED isolate
    /\ UNCHANGED <<ctx, version, license, compile, callVars, workload>>

\* ctx, _ := v8go.NewContext(isolate); solc := &baseSolc{...}
NewContext ==
    /\ newpc = "NewContext"
    /\ ctx' = "open"
    /\ newpc' = "RunScript"
    /\ UNCHANGED <<soljsonjs, isolate, version, license, compile, newRet,
                   callVars, workload>>

\* _, err := solc.ctx.RunScript(soljsonjs, "soljson.js")
InitRunScript ==
    /\ newpc = "RunScript"
    /\ \/ /\ newpc' = "BindVersion"
          /\ UNCHANGED <<newRet, soljsonjs>>
       \/ NewFail("script")
    /\ UNCHANGED <<isolate, ctx, version, license, compile, callVars, workload>>

\* VersionExport without the test for the newer name.
VersionExportMutOldName(s) == "version"

\* The export init wraps for version.

VersionExport(s) ==
    IF Contains(s, NeedleSolidityVersion) THEN "solidity_version" ELSE "version"

\* LicenseExport without the else-if branch for the older name.
LicenseExportMutNoFallback(s) ==
    IF Contains(s, NeedleSolidityLicense) THEN "solidity_license" ELSE "nil"

\* The export init wraps for license, "nil" when it wraps none.

LicenseExport(s) ==
    IF Contains(s, NeedleSolidityLicense) THEN "solidity_license"
    ELSE IF Contains(s, NeedleLicense) THEN "license"
    ELSE "nil"

CompileExport == "solidity_compile"

\* solc.version, err = solc.ctx.RunScript("Module.cwrap(...)", "wrap_version.js")
InitBindVersion ==
    /\ newpc = "BindVersion"
    /\ \/ /\ version' = VersionExport(soljsonjs)
          /\ newpc' = "BindLicense"
          /\ UNCHANGED <<newRet, soljsonjs>>
       \/ /\ version' = "nil"
          /\ NewFail("version")
    /\ UNCHANGED <<isolate, ctx, license, compile, callVars, workload>>

\* The license binding: one of two RunScript calls, or none at all.
InitBindLicense ==
    /\ newpc = "BindLicense"
    /\ IF LicenseExport(soljsonjs) = "nil"
       THEN /\ newpc' = "BindCompile"
            /\ UNCHANGED <<license, newRet, soljsonjs>>
       ELSE \/ /\ license' = LicenseExport(soljsonjs)
               /\ newpc' = "BindCompile"
               /\ UNCHANGED <<newRet, soljsonjs>>
            \/ /\ license' = "nil"
               /\ NewFail("license")
    /\ UNCHANGED <<isolate, ctx, version, compile, callVars, workload>>

\* solc.compile, err = solc.ctx.RunScript("Module.cwrap('solidity_compile', ...)")
\* and, with no error, init returns nil.
InitBindCompile ==
    /\ newpc = "BindCompile"
    /\ \/ /\ compile' = CompileExport
          /\ newpc' = "Return"
          /\ UNCHANGED <<newRet, soljsonjs>>
       \/ /\ compile' = "nil"
          /\ NewFail("compile")
    /\ UNCHANGED <<isolate, ctx, version, license, callVars, workload>>

\* return solc, nil
NewReturn ==
    /\ newpc = "Return"
    /\ newpc' = "returned"
    /\ newRet' = [solc |-> TRUE, err |-> "nil"]
    /\ soljsonjs' = <<>>
    /\ UNCHANGED <<isolate, ctx, version, license, compile, callVars, workload>>

New ==
    \/ NewIsolate
    \/ NewContext
    \/ InitRunScript
    \/ InitBindVersion
    \/ InitBindLicense
    \/ InitBindCompile
    \/ NewReturn

\* ---------------------------------------------------------- the callers
\* What a goroutine may call next on the instance New returned.
\*   "any":     goroutines call any operations, MaxCalls calls in all
\*   "compile": goroutines call only Compile, MaxCalls calls in all
\*   "test":    goroutine 1 alone runs testSolc's License, Version, Compile
Allowed(g, o) ==
    CASE workload = "any" -> calls < MaxCalls
      [] workload = "compile" -> o = "Compile" /\ calls < MaxCalls
      [] workload = "test" ->
            /\ g = 1
            /\ calls < Len(TestProgram)
            /\ o = TestProgram[calls + 1]

\* Program with Version calling its handle without taking the mutex.
ProgramMutNoLock(o) ==
    CASE o = "License" -> <<"CheckHandle", "Lock", "Call", "String", "Deferred">>
      [] o = "Version" -> <<"CheckHandle", "Call", "String", "Deferred">>
      [] o = "Compile" -> <<"Marshal", "Lock", "CreateIn", "CreateOne",
                            "CompileCall", "Unmarshal", "Deferred">>
      [] o = "Close" -> <<"Lock", "CtxClose", "IsolateClose", "Deferred">>

\* The statements of each operation that the model steps through, in order.
\* "Lock" is solc.mux.Lock() together with the defer statement after it.
Program(o) ==
    CASE o = "License" -> <<"CheckHandle", "Lock", "Call", "String", "Deferred">>
      [] o = "Version" -> <<"CheckHandle", "Lock", "Call", "String", "Deferred">>
      [] o = "Compile" -> <<"Marshal", "Lock", "CreateIn", "CreateOne",
                            "CompileCall", "Unmarshal", "Deferred">>
      [] o = "Close" -> <<"Lock", "CtxClose", "IsolateClose", "Deferred">>

\* The statement after p in operation o.
NextPc(o, p) ==
    LET prog == Program(o)
        i == CHOOSE k \in 1..Len(prog) : prog[k] = p
    IN  prog[i + 1]

\* Deferred with every operation deferring Unlock.
DeferredMutUnlock(o) == "Unlock"

\* Deferred with every operation deferring Lock.
DeferredMutLock(o) == "Lock"

\* The call each operation defers right after taking the lock.

Deferred(o) == IF o = "Compile" THEN "Unlock" ELSE "Lock"

\* The statements that execute inside the v8 context.
AccessPcs == {"Call", "CreateIn", "CreateOne", "CompileCall", "CtxClose",
              "IsolateClose"}

\* The handle License or Version calls.
Handle(o) == IF o = "License" THEN license ELSE version

StringRet(s) == [kind |-> "string", out |-> s, err |-> "nil"]
CompileRet(out, e) == [kind |-> "compile", out |-> out, err |-> e]
CloseRet == [kind |-> "void", out |-> "nil", err |-> "nil"]
\* No return statement was reached: val.String() dereferenced a nil val.
PanicRet == [kind |-> "panic", out |-> "nil", err |-> "nil"]

\* A goroutine calls operation o.
StartCall(g, o) ==
    /\ newpc = "returned"
    /\ newRet.solc
    /\ pc[g] = "idle"
    /\ Allowed(g, o)
    /\ op' = [op EXCEPT ![g] = o]
    /\ pc' = [pc EXCEPT ![g] = Program(o)[1]]
    /\ calls' = calls + 1
    /\ val' = [val EXCEPT ![g] = "nil"]
    /\ ret' = [ret EXCEPT ![g] = NoRet]
    /\ UNCHANGED <<newVars, workload, mux, holder, returns, inside>>

\* The operation of g returns to its caller what ret[g] holds.
Complete(g) ==
    /\ pc' = [pc EXCEPT ![g] = "idle"]
    /\ returns' = returns + 1

\* A return statement inside the locked region: the deferred call is next.
ReturnStmt(g, r) ==
    /\ ret' = [ret EXCEPT ![g] = r]
    /\ pc' = [pc EXCEPT ![g] = "Deferred"]

\* if solc.license != nil { ... }; return ""      (Version: solc.version)
CheckHandle(g) ==
    /\ pc[g] = "CheckHandle"
    /\ IF Handle(op[g]) # "nil"
       THEN /\ pc' = [pc EXCEPT ![g] = NextPc(op[g], "CheckHandle")]
            /\ UNCHANGED <<returns, ret>>
       ELSE /\ ret' = [ret EXCEPT ![g] = StringRet("")]
            /\ Complete(g)
    /\ UNCHANGED <<newVars, workload, mux, holder, op, calls, inside, val>>

\* solc.mux.Lock(): blocks while the mutex is locked.
Lock(g) ==
    /\ pc[g] = "Lock"
    /\ ~mux
    /\ mux' = TRUE
    /\ holder' = g
    /\ pc' = [pc EXCEPT ![g] = NextPc(op[g], "Lock")]
    /\ UNCHANGED <<newVars, workload, op, calls, returns, inside, val, ret>>

\* The goroutine enters the v8 call of its current statement.
Enter(g) ==
    /\ pc[g] \in AccessPcs
    /\ g \notin inside
    /\ inside' = inside \cup {g}
    /\ UNCHANGED <<newVars, workload, mux, holder, pc, op, calls, returns,
                   val, ret>>

\* val, _ := solc.license.Call(solc.ctx, nil)     (Version: solc.version)
HandleCall(g) ==
    /\ pc[g] = "Call"
    /\ g \in inside
    /\ inside' = inside \ {g}
    /\ \E v \in {"value", "nil"} : val' = [val EXCEPT ![g] = v]
    /\ pc' = [pc EXCEPT ![g] = NextPc(op[g], "Call")]
    /\ UNCHANGED <<newVars, workload, mux, holder, op, calls, returns, ret>>

\* return val.String(): a nil val panics, and the deferred call still runs.
ValString(g) ==
    /\ pc[g] = "String"
    /\ ReturnStmt(g, IF val[g] = "nil" THEN PanicRet ELSE StringRet("str"))
    /\ val' = [val EXCEPT ![g] = "nil"]
    /\ UNCHANGED <<newVars, workload, mux, holder, op, calls, returns, inside>>

\* b, err := json.Marshal(input); if err != nil { return nil, err }
Marshal(g) ==
    /\ pc[g] = "Marshal"
    /\ \/ /\ pc' = [pc EXCEPT ![g] = NextPc(op[g], "Marshal")]
          /\ UNCHANGED <<returns, ret>>
       \/ /\ ret' = [ret EXCEPT ![g] = CompileRet("nil", "marshal")]
          /\ Complete(g)
    /\ UNCHANGED <<newVars, workload, mux, holder, op, calls, inside, val>>

\* val_in, err := solc.ctx.Create(string(b)); if err != nil { return nil, err }
CreateIn(g) ==
    /\ pc[g] = "CreateIn"
    /\ g \in inside
    /\ inside' = inside \ {g}
    /\ \/ /\ pc' = [pc EXCEPT ![g] = NextPc(op[g], "CreateIn")]
          /\ UNCHANGED ret
       \/ ReturnStmt(g, CompileRet("nil", "create"))
    /\ UNCHANGED <<newVars, workload, mux, holder, op, calls, returns, val>>

\* val_one, _ := solc.ctx.Create(1)
CreateOne(g) ==
    /\ pc[g] = "CreateOne"
    /\ g \in inside
    /\ inside' = inside \ {g}
    /\ pc' = [pc EXCEPT ![g] = NextPc(op[g], "CreateOne")]
    /\ UNCHANGED <<newVars, workload, mux, holder, op, calls, returns, val, ret>>

\* What the compile entry point hands back: the JSON of an Output without
\* errors, of an Output that lists compilation errors, or no JSON object.
CompileResults == {"Output", "OutputWithErrors", "notJSON"}

\* val_out, err := solc.compile.Call(...); if err != nil { return nil, err }
CompileCall(g) ==
    /\ pc[g] = "CompileCall"
    /\ g \in inside
    /\ inside' = inside \ {g}
    /\ \/ /\ \E v \in CompileResults : val' = [val EXCEPT ![g] = v]
          /\ pc' = [pc EXCEPT ![g] = NextPc(op[g], "CompileCall")]
          /\ UNCHANGED ret
       \/ /\ ReturnStmt(g, CompileRet("nil", "call"))
          /\ UNCHANGED val
    /\ UNCHANGED <<newVars, workload, mux, holder, op, calls, returns>>

\* json.Unmarshal([]byte(s), out): the error it gives for the string s.
UnmarshalErr(s) == IF s = "notJSON" THEN "unmarshal" ELSE "nil"

\* CompileOutcome returning out even when json.Unmarshal failed.
CompileOutcomeMutKeepOut(s) == CompileRet("Output", UnmarshalErr(s))

\* The two values Compile returns once the entry point handed back s.
CompileOutcome(s) ==
    IF UnmarshalErr(s) # "nil"
    THEN CompileRet("nil", UnmarshalErr(s))
    ELSE CompileRet(s, "nil")

\* out := &Output{}; err = json.Unmarshal(...); return nil, err / return out, nil
Unmarshal(g) ==
    /\ pc[g] = "Unmarshal"
    /\ ReturnStmt(g, CompileOutcome(val[g]))
    /\ val' = [val EXCEPT ![g] = "nil"]
    /\ UNCHANGED <<newVars, workload, mux, holder, op, calls, returns, inside>>

\* solc.ctx.Close()
CtxClose(g) ==
    /\ pc[g] = "CtxClose"
    /\ g \in inside
    /\ inside' = inside \ {g}
    /\ ctx' = "closed"
    /\ pc' = [pc EXCEPT ![g] = NextPc(op[g], "CtxClose")]
    /\ UNCHANGED <<soljsonjs, newpc, isolate, version, license, compile,
                   newRet, workload, mux, holder, op, calls, returns, val, ret>>

\* solc.isolate.Close(); Close has no return value.
IsolateClose(g) ==
    /\ pc[g] = "IsolateClose"
    /\ g \in inside
    /\ inside' = inside \ {g}
    /\ isolate' = "closed"
    /\ ReturnStmt(g, CloseRet)
    /\ UNCHANGED <<soljsonjs, newpc, ctx, version, license, compile, newRet,
                   workload, mux, holder, op, calls, returns, val>>

\* The deferred call runs as the operation leaves: Unlock frees the mutex,
\* Lock waits for it to be free.  Then the operation returns, or the panic
\* goes on unwinding and the goroutine never returns.
RunDeferred(g) ==
    /\ pc[g] = "Deferred"
    /\ IF Deferred(op[g]) = "Unlock"
       THEN /\ mux' = FALSE
            /\ holder' = 0
       ELSE /\ ~mux
            /\ mux' = TRUE
            /\ holder' = g
    /\ IF ret[g] = PanicRet
       THEN /\ pc' = [pc EXCEPT ![g] = "panicked"]
            /\ UNCHANGED returns
       ELSE Complete(g)
    /\ UNCHANGED <<newVars, workload, op, calls, inside, val, ret>>

\* One step of goroutine g that is not a wait for the mutex.
Step(g) ==
    \/ \E o \in Ops : StartCall(g, o)
    \/ CheckHandle(g)
    \/ Enter(g)
    \/ HandleCall(g)
    \/ ValString(g)
    \/ Marshal(g)
    \/ CreateIn(g)
    \/ CreateOne(g)
    \/ CompileCall(g)
    \/ Unmarshal(g)
    \/ CtxClose(g)
    \/ IsolateClose(g)

Next ==
    \/ New
    \/ \E g \in Goroutines : Step(g) \/ Lock(g) \/ RunDeferred(g)

Spec == Init /\ [][Next]_vars

\* The scheduler runs some goroutine that can take a step whenever there is
\* one.  Nothing is assumed about which: with the number of calls bounded,
\* that is enough for every step that stays possible to be taken.
Fairness == WF_vars(Next)

FairSpec == Spec /\ Fairness

\* ================================================================ claims
\* Operations that use the context without closing it.
UseOps == {"License", "Version", "Compile"}

InstanceReturned == newpc = "returned" /\ newRet.solc

\* C1: goroutines calling Compile, Version, License and Close never overlap
\* inside the v8 context: at most one goroutine is inside it, and that
\* goroutine holds the instance's mutex.
C1_ContextAccessSerialized ==
    /\ Cardinality(inside) <= 1
    /\ \A g \in inside : mux /\ holder = g

\* One goroutine is inside the context while another waits in Lock().
C1_Witness ==
    \E g, h \in Goroutines : g # h /\ g \in inside /\ pc[h] = "Lock"

\* C2: every operation releases the mutex before it returns: an operation
\* that holds the mutex and has reached its exit can run its deferred call
\* (it is not waiting for the mutex it holds), and whenever no operation is
\* in progress the mutex is free.
C2_LockReleasedBeforeReturn ==
    /\ (\A g \in Goroutines : pc[g] = "idle") => ~mux
    /\ \A g \in Goroutines :
        (pc[g] = "Deferred" /\ mux /\ holder = g) => ENABLED RunDeferred(g)

\* C3: after New succeeded on a script that exports a license function, the
\* goroutine that calls License(), Version() and Compile(input) in turn gets
\* all three calls back.
C3_TestCallsReturn ==
    (workload = "test" /\ InstanceReturned /\ license # "nil")
        ~> (returns = Len(TestProgram))

\* C4: init binds license to 'solidity_license' when the script contains
\* "_solidity_license", else to 'license' when it contains "_license", else
\* leaves it nil and goes on to bind compile; on an instance whose license
\* handle is nil, License() returns "" and neither takes the mutex nor
\* enters the context.
C4_LicenseFallback ==
    /\ [](newpc \in {"BindCompile", "Return"} =>
            license = IF Contains(soljsonjs, NeedleSolidityLicense)
                        THEN "solidity_license"
                      ELSE IF Contains(soljsonjs, NeedleLicense) THEN "license"
                      ELSE "nil")
    /\ [][(newpc = "BindLicense" /\ ~Contains(soljsonjs, NeedleLicense))
            => (newpc' = "BindCompile" /\ license' = "nil")]_vars
    /\ [](\A g \in Goroutines :
            (op[g] = "License" /\ license = "nil") =>
                /\ pc[g] \in {"CheckHandle", "idle"}
                /\ g \notin inside
                /\ ~(mux /\ holder = g)
                /\ pc[g] = "idle" => ret[g] = StringRet(""))

\* License() has returned "" on an instance without a license handle.
C4_Witness ==
    /\ InstanceReturned
    /\ license = "nil"
    /\ \E g \in Goroutines :
        op[g] = "License" /\ pc[g] = "idle" /\ ret[g] = StringRet("")

\* C5: when init succeeds, version wraps 'solidity_version' exactly when the
\* script contains "_solidity_version" and 'version' otherwise, compile wraps
\* 'solidity_compile', and on every instance New returned both handles are
\* non-nil.
C5_VersionAndCompileBinding ==
    /\ newpc = "Return" =>
        /\ version = "solidity_version"
                <=> Contains(soljsonjs, NeedleSolidityVersion)
        /\ version = "version"
                <=> ~Contains(soljsonjs, NeedleSolidityVersion)
        /\ compile = "solidity_compile"
    /\ InstanceReturned =>
        /\ version \in {"solidity_version", "version"}
        /\ compile = "solidity_compile"

\* init succeeded on a script that names the license export but not
\* "_solidity_version".
C5_Witness ==
    /\ newpc = "Return"
    /\ Contains(soljsonjs, NeedleLicense)
    /\ version = "version"

\* C6: Compile returns a non-nil Output with a nil error or a nil Output
\* with a non-nil error; a failing step ends the call with that step's
\* error (nothing runs after it but the deferred call); a result that lists
\* compilation errors comes back as an Output with a nil error.
CompileReturning(g) == op[g] = "Compile" /\ pc[g] \in {"Deferred", "idle"}

C6_CompileResult ==
    /\ [](\A g \in Goroutines : CompileReturning(g) =>
            /\ ret[g].kind = "compile"
            /\ ret[g].out = "nil" <=> ret[g].err # "nil"
            /\ ret[g].err \in {"nil", "marshal", "create", "call", "unmarshal"}
            /\ ret[g].out \in {"nil", "Output", "OutputWithErrors"})
    /\ [](\A g \in Goroutines :
            (op[g] = "Compile" /\ pc[g] \notin {"Deferred", "idle"}) =>
                ret[g] = NoRet)
    /\ [][\A g \in Goroutines :
            (CompileReturning(g) /\ calls' = calls) =>
                (ret'[g] = ret[g] /\ pc'[g] \in {"Deferred", "idle"}
                    /\ g \notin inside')]_vars

\* Compile returned an Output that lists compilation errors, with no error.
C6_Witness ==
    \E g \in Goroutines :
        /\ op[g] = "Compile"
        /\ pc[g] = "idle"
        /\ ret[g] = CompileRet("OutputWithErrors", "nil")

\* C7: New returns the error of the first construction step that fails,
\* without an instance and without attempting a later step; it returns an
\* instance only when every step succeeded, and then no error.
C7_NewErrorPassThrough ==
    /\ newpc # "returned" => newRet = [solc |-> FALSE, err |-> "nil"]
    /\ newpc = "returned" =>
        /\ newRet.solc <=> newRet.err = "nil"
        /\ newRet.err = "isolate" =>
            isolate = "none" /\ ctx = "none" /\ version = "nil"
                /\ license = "nil" /\ compile = "nil"
        /\ newRet.err = "script" =>
            version = "nil" /\ license = "nil" /\ compile = "nil"
        /\ newRet.err = "version" =>
            version = "nil" /\ license = "nil" /\ compile = "nil"
        /\ newRet.err = "license" =>
            version # "nil" /\ license = "nil" /\ compile = "nil"
        /\ newRet.err = "compile" => version # "nil" /\ compile = "nil"
        /\ newRet.solc =>
            isolate # "none" /\ ctx # "none" /\ version # "nil"
                /\ compile # "nil"

\* New returned the error of the license binding.
C7_Witness == newpc = "returned" /\ newRet.err = "license" /\ ~newRet.solc

\* C8: when goroutines call only Compile, every call returns: from any
\* state, the calls in progress all get back to their callers.  A call that
\* has returned holds no lock, whichever exit it took, and a call that has
\* not got past marshalling its input holds none either.
C8_CompileCallsReturn ==
    /\ (workload = "compile") ~> (\A g \in Goroutines : pc[g] = "idle")
    /\ [](workload = "compile" =>
            \A g \in Goroutines :
                /\ pc[g] = "idle" => ~(mux /\ holder = g)
                /\ pc[g] \in {"Marshal", "Lock"} => ~(mux /\ holder = g))

\* A Compile call has returned, and now one goroutine waits in Lock() while
\* another holds the mutex inside its own Compile.
C8_Witness ==
    /\ workload = "compile"
    /\ returns >= 1
    /\ \E g, h \in Goroutines :
        /\ g # h
        /\ pc[g] = "Lock"
        /\ pc[h] \in {"CreateIn", "CreateOne", "CompileCall", "Unmarshal",
                      "Deferred"}
        /\ mux /\ holder = h

C10_FailedNewClosesIsolate ==
    (newpc = "returned" /\ newRet.err \in {"script", "version", "license", "compile"})
        => (isolate = "closed" /\ ctx = "closed")
====
